---- MODULE Spec2Model ----
(***************************************************************************)
(* Model of lektricowifi.Device (src/src/lektricowifi/lektricowifi.py):    *)
(* one device handle, the public operations device_info, device_config and *)
(* the control commands, and the transport step _request they all go       *)
(* through.  Every await of the code is a step boundary: an operation runs *)
(* up to the request it issues, then one transport event (a response, an   *)
(* error, the timeout) resumes it up to its next request or its end.       *)
(***************************************************************************)
EXTENDS Integers, Sequences, FiniteSets, TLC

(***************************************************************************)
(* Strings the code inspects character by character (str.startswith) are   *)
(* sequences of characters; all other strings are atoms.                   *)
(***************************************************************************)
TYPE_1P7K == <<"1", "p", "7", "k">>
TYPE_3P22K == <<"3", "p", "2", "2", "k">>
TYPE_EM == <<"e", "m">>
TYPE_3EM == <<"3", "e", "m">>
PREFIX_M2W_81 == <<"m", "2", "w", "_", "8", "1">>
PREFIX_M2W_83 == <<"m", "2", "w", "_", "8", "3">>

CURRENT_LIMIT_REASON ==
  <<"no_limit", "installation_current", "user_limit", "dynamic_limit",
    "schedule", "em_offline", "em", "ocpp">>

\* str.startswith
startswith(s, p) == Len(p) <= Len(s) /\ SubSeq(s, 1, Len(p)) = p

(***************************************************************************)
(* Python dicts are functions from keys to values.                         *)
(***************************************************************************)
EmptyDict == <<>>

\* a dict holding key k when s = {v}, and nothing when s = {}
Opt(k, s) == [x \in (IF s = {} THEN {} ELSE {k}) |-> CHOOSE v \in s : TRUE]

\* d.update(e), dict(d, **e): the keys of e win
update(d, e) ==
  [k \in (DOMAIN d) \cup (DOMAIN e) |-> IF k \in DOMAIN e THEN e[k] ELSE d[k]]

\* d.pop(k) guarded by "k in d.keys()"
pop(d, k) == [x \in (DOMAIN d) \ {k} |-> d[x]]

\* the keys of d that are in ks
restrict(d, ks) == [x \in (DOMAIN d) \cap ks |-> d[x]]

has(d, k) == k \in DOMAIN d

(***************************************************************************)
(* A step of a decode pipeline either fails with a Python exception or     *)
(* carries a dict on.                                                      *)
(***************************************************************************)
Ok(d) == [err |-> "none", val |-> d]
Err(kind) == [err |-> kind, val |-> EmptyDict]

\* line 379 testing "C" only
_put_readable_format_no_D(_state) ==
  IF _state = "A" THEN "available"
  ELSE IF _state = "B" THEN "connected"
  ELSE IF _state = "B_AUTH" THEN "need_auth"
  ELSE IF _state = "B_PAUSE" THEN "paused"
  ELSE IF _state = "C" THEN "charging"
  ELSE IF _state = "E" \/ _state = "F" THEN "error"
  ELSE IF _state = "OTA" THEN "updating_firmware"
  ELSE _state

\* Device._put_readable_format
_put_readable_format(_state) ==
  IF _state = "A" THEN "available"
  ELSE IF _state = "B" THEN "connected"
  ELSE IF _state = "B_AUTH" THEN "need_auth"
  ELSE IF _state = "B_PAUSE" THEN "paused"
  ELSE IF _state = "C" \/ _state = "D" THEN "charging"
  ELSE IF _state = "E" \/ _state = "F" THEN "error"
  ELSE IF _state = "OTA" THEN "updating_firmware"
  ELSE _state

\* Python's list[i]: 0 .. len-1 from the front, -len .. -1 from the back,
\* IndexError outside
list_index_ok(l, i) == -Len(l) <= i /\ i < Len(l)
list_index(l, i) == IF i >= 0 THEN l[i + 1] ELSE l[Len(l) + i + 1]

FaultFlags ==
  {"state_e_activated", "overtemp", "critical_temp", "overcurrent",
   "meter_fault", "undervoltage_error", "overvoltage_error", "rcd_error",
   "cp_diode_failure", "contactor_failure"}

\* the fault set device_info builds itself when has_active_errors is false
NoActiveErrors == [k \in FaultFlags |-> FALSE]

(***************************************************************************)
(* The record classes.  lektricowifi.py builds them with keyword arguments *)
(* and calls model_dump() on them: the classes it is written for keep      *)
(* their declared fields, ignore other keys and reject a missing field.    *)
(* Fields no code path reads or writes (session_energy, temperature, ...)  *)
(* travel with fw_version and are left out.                                *)
(***************************************************************************)
InfoFields ==
  {"current_l1", "current_l2", "current_l3",
   "voltage_l1", "voltage_l2", "voltage_l3", "fw_version"}

InfoForChargerFields ==
  InfoFields \cup FaultFlags \cup
  {"charger_state", "dynamic_current", "require_auth", "has_active_errors",
   "current_limit_reason"}

InfoForM2WFields ==
  InfoFields \cup
  {"power_l1", "power_l2", "power_l3", "breaker_curent",
   "power_factor_l1", "power_factor_l2", "power_factor_l3", "lb_mode"}

SettingsFields == {"type", "serial_number", "board_revision"}

\* Model(**kw).model_dump()
model_dump(fields, optional, kw) ==
  IF fields \subseteq DOMAIN kw
  THEN Ok(restrict(kw, fields \cup optional))
  ELSE Err("ValidationError")

InfoForCharger(kw) == model_dump(InfoForChargerFields, {"relay_mode"}, kw)
InfoForM2W(kw) == model_dump(InfoForM2WFields, {}, kw)
Settings(kw) == model_dump(SettingsFields, {}, kw)

\* the keyword arguments l1, l2, l3 taken from a 3-element array
phases(prefix, arr) ==
  (prefix[1] :> arr[1]) @@ (prefix[2] :> arr[2]) @@ (prefix[3] :> arr[3])

(***************************************************************************)
(* device_info for a charger, from the last merge to the return            *)
(* (lines 86-109).                                                         *)
(***************************************************************************)
\* line 87
decode_state(data) ==
  IF ~has(data, "extended_charger_state") THEN Err("KeyError")
  ELSE Ok(update(data,
         "charger_state" :> _put_readable_format(data["extended_charger_state"])))

\* int(v) of line 93 succeeds on an int and raises ValueError on a str that
\* is no numeral, such as the names of CURRENT_LIMIT_REASON; the values are
\* told apart by their repr
Ints == -16..16
int_ok(v) == ToString(v) \in {ToString(i) : i \in Ints}

\* lines 90-93
decode_limit_reason(data) ==
  IF ~has(data, "current_limit_reason")
  THEN Ok(update(data, "current_limit_reason" :> list_index(CURRENT_LIMIT_REASON, 0)))
  ELSE IF ~int_ok(data["current_limit_reason"])
  THEN Err("ValueError")
  ELSE IF ~list_index_ok(CURRENT_LIMIT_REASON, data["current_limit_reason"])
  THEN Err("IndexError")
  ELSE Ok(update(data, "current_limit_reason" :>
         list_index(CURRENT_LIMIT_REASON, data["current_limit_reason"])))

\* lines 96-97 with the test of line 96 lost
backfill_state_e_always(data) ==
  IF ~has(data, "state_machine_e_activated") THEN Err("KeyError")
  ELSE Ok(update(data, "state_e_activated" :> data["state_machine_e_activated"]))

\* lines 96-97
backfill_state_e(data) ==
  IF has(data, "state_e_activated") THEN Ok(data)
  ELSE IF ~has(data, "state_machine_e_activated") THEN Err("KeyError")
  ELSE Ok(update(data, "state_e_activated" :> data["state_machine_e_activated"]))

\* lines 99-100
backfill_relay_mode(data) ==
  IF has(data, "relay_mode") THEN Ok(data)
  ELSE Ok(update(data, "relay_mode" :> -1))

\* lines 102-109
charger_record(data) ==
  IF ~has(data, "currents") THEN Err("KeyError")
  ELSE IF Len(data["currents"]) < 3 THEN Err("IndexError")
  ELSE IF ~has(data, "voltages") THEN Err("KeyError")
  ELSE IF Len(data["voltages"]) < 3 THEN Err("IndexError")
  ELSE IF ~has(data, "headless") THEN Err("KeyError")
  ELSE InfoForCharger(
         update(data,
           phases(<<"current_l1", "current_l2", "current_l3">>, data["currents"])
           @@ phases(<<"voltage_l1", "voltage_l2", "voltage_l3">>, data["voltages"])
           @@ ("require_auth" :> ~data["headless"])))

\* f after g, an exception of g passing through
then(r, f(_)) == IF r.err # "none" THEN r ELSE f(r.val)

\* lines 86-100
legacy_stage(data) ==
  then(then(then(decode_state(data), decode_limit_reason),
            backfill_state_e), backfill_relay_mode)

charger_decode(data) == then(legacy_stage(data), charger_record)

(***************************************************************************)
(* device_info for an energy meter, lines 116-129.                         *)
(***************************************************************************)
m2w_record(data) ==
  IF ~has(data, "load_balancing_mode") THEN Err("KeyError")
  ELSE IF ~has(data, "breaker_rating") THEN Err("KeyError")
  ELSE IF ~has(data, "current") THEN Err("KeyError")
  ELSE IF Len(data["current"]) < 3 THEN Err("IndexError")
  ELSE IF ~has(data, "voltage") THEN Err("KeyError")
  ELSE IF Len(data["voltage"]) < 3 THEN Err("IndexError")
  ELSE IF ~has(data, "active_p") THEN Err("KeyError")
  ELSE IF Len(data["active_p"]) < 3 THEN Err("IndexError")
  ELSE IF ~has(data, "power_factor") THEN Err("KeyError")
  ELSE IF Len(data["power_factor"]) < 3 THEN Err("IndexError")
  ELSE InfoForM2W(
         update(data,
           ("lb_mode" :> data["load_balancing_mode"])
           @@ ("breaker_curent" :> data["breaker_rating"])
           @@ phases(<<"current_l1", "current_l2", "current_l3">>, data["current"])
           @@ phases(<<"voltage_l1", "voltage_l2", "voltage_l3">>, data["voltage"])
           @@ phases(<<"power_l1", "power_l2", "power_l3">>, data["active_p"])
           @@ phases(<<"power_factor_l1", "power_factor_l2", "power_factor_l3">>,
                     data["power_factor"])))

(***************************************************************************)
(* What the device and the network can answer.                             *)
(***************************************************************************)
\* an optional value: absent, or one of S
OptOf(S) == {{}} \cup {{v} : v \in S}

Amps == {6, 16}
RawStates == {"B_AUTH", "Z"}
ReasonIndexes == {-1, 3, 8}
PhaseArrays == {<<1, 2, 3>>, <<1, 2>>}
FaultSets == {{"overtemp"}, FaultFlags \ {"state_e_activated"}}

charger_info_payloads ==
  { Opt("extended_charger_state", st) @@ Opt("has_active_errors", hae)
    @@ Opt("current_limit_reason", clr) @@ Opt("state_machine_e_activated", sme)
    @@ Opt("dynamic_current", dc) @@ ("currents" :> <<1, 2, 3>>)
    @@ ("voltages" :> <<230, 231, 229>>) @@ ("fw_version" :> "1.45") :
      st \in {{v} : v \in RawStates}, hae \in OptOf(BOOLEAN),
      clr \in OptOf(ReasonIndexes), sme \in OptOf({TRUE}), dc \in OptOf({6}) }

app_config_payloads ==
  { Opt("headless", hl) @@ Opt("has_active_errors", hae) @@ Opt("dynamic_current", dc) :
      hl \in OptOf({FALSE}), hae \in OptOf(BOOLEAN), dc \in OptOf({10}) }

active_errors_payloads ==
  { [k \in FaultFlags \ {"state_e_activated"} |-> k \in on]
    @@ Opt("state_e_activated", sea) @@ Opt("dynamic_current", dc) :
      on \in FaultSets, sea \in OptOf({FALSE}), dc \in OptOf({12}) }

\* "read dynamic_current and relay_mode" (line 82)
dynamic_current_payloads ==
  { Opt("dynamic_current", dc) @@ Opt("relay_mode", rm) :
      dc \in OptOf({16}), rm \in OptOf({1}) }

meter_info_payloads ==
  { Opt("current", cur) @@ Opt("breaker_rating", br)
    @@ ("voltage" :> <<230, 231, 229>>) @@ ("active_p" :> <<0, 0, 0>>)
    @@ ("power_factor" :> <<0, 0, 0>>) :
      cur \in OptOf(PhaseArrays), br \in OptOf({32}) }

App_config_payloads ==
  { Opt("load_balancing_mode", lb) @@ Opt("breaker_rating", br) :
      lb \in OptOf({0, 2}), br \in OptOf({40}) }

Sw_version_payloads == { Opt("fw_version", fw) : fw \in OptOf({"1.15"}) }

DeviceIds ==
  { TYPE_1P7K \o <<"_", "5">>,
    TYPE_3P22K \o <<"_", "5", "0", "0", "1", "2", "3">>,
    PREFIX_M2W_81 \o <<"0">>,
    PREFIX_M2W_83 \o <<"0">>,
    <<"m", "2", "w", "_", "8", "0">>,
    TYPE_1P7K \o <<"5">>,
    TYPE_3P22K \o <<"x", "_", "7">>,
    <<"x", "y", "_", "1">>,
    <<"x", "y">> }

Device_id_payloads == { Opt("device_id", id) : id \in OptOf(DeviceIds) }

config_payloads ==
  { Opt("serial_number", sn) @@ Opt("board_revision", br) @@ Opt("type", ty) :
      sn \in OptOf({500006}), br \in OptOf({"B"}), ty \in OptOf({TYPE_1P7K, TYPE_EM}) }

ack_payloads ==
  { ("id" :> 57130362) @@ ("dst" :> "HASS") @@ Opt("result", r) @@ Opt("error", e) :
      r \in OptOf(BOOLEAN), e \in OptOf({-6}) }

payloads(uri) ==
  CASE uri = "charger_info.get" -> charger_info_payloads
    [] uri = "app_config.get" -> app_config_payloads
    [] uri = "active_errors.get" -> active_errors_payloads
    [] uri = "dynamic_current.get" -> dynamic_current_payloads
    [] uri = "Meter_info.Get" -> meter_info_payloads
    [] uri = "App_config.Get" -> App_config_payloads
    [] uri = "Sw_version.Get" -> Sw_version_payloads
    [] uri = "Device_id.Get" -> Device_id_payloads
    [] uri = "charger_config.get" -> config_payloads
    [] uri = "M2w_config.Get" -> config_payloads
    [] uri = "rpc" -> ack_payloads

\* Content-Type headers, as the parts the "in" test of line 354 can find
JsonContentTypes == {<<"application/json", "; charset=utf-8">>}
OtherContentTypes == {<<"text/html", "; charset=utf-8">>, <<>>}
FailureStatuses == {404}
Texts == {"<html>busy</html>"}

\* "application/json" in content_type
is_json(content_type) ==
  \E i \in 1..Len(content_type) : content_type[i] = "application/json"

NoResponse == [status |-> 0, content_type |-> <<>>, text |-> ""]

DeviceTypeArgs ==
  {TYPE_1P7K, TYPE_3P22K, TYPE_EM, TYPE_3EM, <<"m", "2", "w">>, <<>>}
CorrelationIds == {10000000, 99999999}

(***************************************************************************)
(* State.                                                                  *)
(*   asyncClient, close_session  the fields of the handle                  *)
(*   clients      the clients the handle has created, in order             *)
(*   closed_clients  the clients the handle has closed                     *)
(*   pc           "idle", "await" (a request is in flight), "done"         *)
(*   op, device_type  the operation running or last run, and its argument  *)
(*   pending      the RPC method of the request in flight                  *)
(*   calls        the requests the operation has issued, in order          *)
(*   received     the JSON bodies the operation was answered with, in order *)
(*   data, data_type  the locals of the operation                          *)
(*   lastNet, response  the transport event that ended the last round trip *)
(*                and the status, Content-Type and text that came with it  *)
(*   outcome, result, error_args  what the caller got: "ok" and a value,   *)
(*                or the exception class and its arguments                 *)
(***************************************************************************)
VARIABLES asyncClient, close_session, clients, closed_clients, pc, op,
          device_type, pending, calls, received, data, data_type, lastNet,
          response, outcome, result, error_args

vars ==
  <<asyncClient, close_session, clients, closed_clients, pc, op,
    device_type, pending, calls, received, data, data_type, lastNet,
    response, outcome, result, error_args>>

\* httpx.AsyncClient.is_closed of the client the handle holds
is_closed == asyncClient \in closed_clients

\* Device(host) or Device(host, asyncClient=client)
Init ==
  /\ asyncClient \in {"None", "supplied"}
  /\ close_session = FALSE
  /\ clients = <<>>
  /\ closed_clients = {}
  /\ pc = "idle"
  /\ op = "none"
  /\ device_type = <<>>
  /\ pending = "none"
  /\ calls = <<>>
  /\ received = <<>>
  /\ data = EmptyDict
  /\ data_type = EmptyDict
  /\ lastNet = "none"
  /\ response = NoResponse
  /\ outcome = "none"
  /\ result = EmptyDict
  /\ error_args = <<>>

(***************************************************************************)
(* _request, lines 328-338: the client is created on first use, the        *)
(* request is sent and the operation waits for the transport.  A client    *)
(* that was closed sends nothing: httpx.AsyncClient.request raises         *)
(* RuntimeError at once, and lines 340-351 do not catch it.                *)
(***************************************************************************)
\* line 328 with the test lost: every request makes a client
needs_client_always == TRUE

\* line 328
needs_client == asyncClient = "None"

\* httpx.AsyncClient() of line 329: an object no earlier one is equal to
new_client == IF clients = <<>> THEN "created" ELSE "created_again"

_request(log, method, url, json) ==
  /\ asyncClient' = IF needs_client THEN new_client ELSE asyncClient
  /\ close_session' = IF needs_client THEN TRUE ELSE close_session
  /\ clients' = IF needs_client THEN Append(clients, new_client) ELSE clients
  /\ UNCHANGED closed_clients
  /\ IF is_closed
     THEN /\ calls' = log
          /\ pending' = "none"
          /\ pc' = "done"
          /\ outcome' = "RuntimeError"
          /\ result' = EmptyDict
          /\ error_args' = <<"Cannot send a request, as the client has been closed.">>
     ELSE /\ calls' = Append(log, [method |-> method, url |-> url, json |-> json])
          /\ pending' = url[Len(url)]
          /\ pc' = "await"
          /\ outcome' = "none"
          /\ result' = EmptyDict
          /\ error_args' = <<>>

\* _request_get, lines 290-291
_request_get(log, uri) == _request(log, "GET", <<"rpc", uri>>, EmptyDict)

\* line 310 sending with the method of line 291
_request_post_as_get(log, json) == _request(log, "GET", <<"rpc">>, json)

\* _request_post, line 310
_request_post(log, json) == _request(log, "POST", <<"rpc">>, json)

\* an exception leaves the operation
raise(log, kind, args) ==
  /\ pc' = "done"
  /\ outcome' = kind
  /\ error_args' = args
  /\ result' = EmptyDict
  /\ pending' = "none"
  /\ calls' = log
  /\ data' = EmptyDict
  /\ UNCHANGED <<asyncClient, close_session, clients, closed_clients>>

\* the operation returns value
return(value) ==
  /\ pc' = "done"
  /\ outcome' = "ok"
  /\ result' = value
  /\ error_args' = <<>>
  /\ pending' = "none"
  /\ data' = EmptyDict
  /\ UNCHANGED <<asyncClient, close_session, clients, closed_clients, calls>>

\* return r.val, or raise what the decoding raised
finish(r) ==
  IF r.err = "none" THEN return(r.val) ELSE raise(calls, r.err, <<>>)

\* no operation is running: the caller may start one
free == pc # "await"

\* a public operation is entered
enter(name, arg) ==
  /\ op' = name
  /\ received' = <<>>
  /\ device_type' = arg
  /\ data_type' = EmptyDict
  /\ lastNet' = "none"
  /\ response' = NoResponse

(***************************************************************************)
(* device_info, lines 57-131.                                              *)
(***************************************************************************)
is_charger(dt) == dt = TYPE_1P7K \/ dt = TYPE_3P22K
\* line 110 as a plain "else:"
is_meter_else(dt) == TRUE

is_meter(dt) == dt = TYPE_EM \/ dt = TYPE_3EM

device_info(dt) ==
  /\ free
  /\ enter("device_info", dt)
  /\ IF is_charger(dt)
     THEN data' = EmptyDict /\ _request_get(<<>>, "charger_info.get")
     ELSE IF is_meter(dt)
     THEN data' = EmptyDict /\ _request_get(<<>>, "Meter_info.Get")
     ELSE raise(<<>>, "DeviceError", <<"Unknown device_id">>)

\* a JSON response to the request in flight (lines 353-365)
receive_json(d) ==
  /\ pc = "await"
  /\ d \in payloads(pending)
  /\ lastNet' = "json"
  /\ received' = Append(received, d)
  /\ \E ct \in JsonContentTypes :
       response' = [status |-> 200, content_type |-> ct, text |-> ""]
  /\ UNCHANGED <<op, device_type>>

\* line 62 with the test lost: the fault set is always fetched
needs_active_errors_always(d) == TRUE

\* line 62
needs_active_errors(d) == d["has_active_errors"]

\* lines 79-80 left out
keep_dynamic_current(d) == d

\* lines 79-80
drop_dynamic_current(d) == pop(d, "dynamic_current")

\* line 58 answered: line 59
info_charger_info ==
  /\ op = "device_info" /\ pending = "charger_info.get"
  /\ \E d \in charger_info_payloads :
       /\ receive_json(d)
       /\ data' = d
       /\ _request_get(calls, "app_config.get")
  /\ UNCHANGED data_type

\* line 59 answered: lines 60-83
info_app_config ==
  /\ op = "device_info" /\ pending = "app_config.get"
  /\ \E d \in app_config_payloads :
       /\ receive_json(d)
       /\ LET merged == update(data, d) IN
          IF ~has(merged, "has_active_errors")
          THEN raise(calls, "KeyError", <<"has_active_errors">>)
          ELSE IF needs_active_errors(merged)
          THEN data' = merged /\ _request_get(calls, "active_errors.get")
          ELSE /\ data' = drop_dynamic_current(update(merged, NoActiveErrors))
               /\ _request_get(calls, "dynamic_current.get")
  /\ UNCHANGED data_type

\* line 63 answered: lines 77-83
info_active_errors ==
  /\ op = "device_info" /\ pending = "active_errors.get"
  /\ \E d \in active_errors_payloads :
       /\ receive_json(d)
       /\ data' = drop_dynamic_current(update(data, d))
       /\ _request_get(calls, "dynamic_current.get")
  /\ UNCHANGED data_type

\* line 83 answered: lines 84-109
info_dynamic_current ==
  /\ op = "device_info" /\ pending = "dynamic_current.get"
  /\ \E d \in dynamic_current_payloads :
       /\ receive_json(d)
       /\ finish(charger_decode(update(data, d)))
  /\ UNCHANGED data_type

\* line 111 answered: line 112
info_meter_info ==
  /\ op = "device_info" /\ pending = "Meter_info.Get"
  /\ \E d \in meter_info_payloads :
       /\ receive_json(d)
       /\ data' = d
       /\ _request_get(calls, "App_config.Get")
  /\ UNCHANGED data_type

\* line 112 answered: lines 113-114
info_App_config ==
  /\ op = "device_info" /\ pending = "App_config.Get"
  /\ \E d \in App_config_payloads :
       /\ receive_json(d)
       /\ data' = update(data, d)
       /\ _request_get(calls, "Sw_version.Get")
  /\ UNCHANGED data_type

\* line 114 answered: lines 115-129
info_Sw_version ==
  /\ op = "device_info" /\ pending = "Sw_version.Get"
  /\ \E d \in Sw_version_payloads :
       /\ receive_json(d)
       /\ finish(m2w_record(update(data, d)))
  /\ UNCHANGED data_type

(***************************************************************************)
(* device_config, lines 138-157.                                           *)
(***************************************************************************)
device_config ==
  /\ free
  /\ enter("device_config", <<>>)
  /\ data' = EmptyDict
  /\ _request_get(<<>>, "Device_id.Get")

\* lines 147-152 testing "m2w_8" only
detect_loose(_device_id) ==
  IF startswith(_device_id, TYPE_1P7K)
  THEN [type |-> TYPE_1P7K, uri |-> "charger_config.get"]
  ELSE IF startswith(_device_id, TYPE_3P22K)
  THEN [type |-> TYPE_3P22K, uri |-> "charger_config.get"]
  ELSE IF startswith(_device_id, <<"m", "2", "w", "_", "8">>)
  THEN [type |-> TYPE_EM, uri |-> "M2w_config.Get"]
  ELSE [type |-> <<>>, uri |-> "none"]

\* lines 141-154: the type tag and the configuration endpoint of an
\* identifier; uri "none" is the else branch
detect(_device_id) ==
  IF startswith(_device_id, TYPE_1P7K)
  THEN [type |-> TYPE_1P7K, uri |-> "charger_config.get"]
  ELSE IF startswith(_device_id, TYPE_3P22K)
  THEN [type |-> TYPE_3P22K, uri |-> "charger_config.get"]
  ELSE IF startswith(_device_id, PREFIX_M2W_81)
  THEN [type |-> TYPE_EM, uri |-> "M2w_config.Get"]
  ELSE IF startswith(_device_id, PREFIX_M2W_83)
  THEN [type |-> TYPE_3EM, uri |-> "M2w_config.Get"]
  ELSE [type |-> <<>>, uri |-> "none"]

\* line 156
tagged(tag, d) == update(tag, d)

\* line 138 answered: lines 139-154
config_Device_id ==
  /\ op = "device_config" /\ pending = "Device_id.Get"
  /\ \E d \in Device_id_payloads :
       /\ receive_json(d)
       /\ IF ~has(d, "device_id")
          THEN raise(calls, "KeyError", <<"device_id">>) /\ UNCHANGED data_type
          ELSE LET family == detect(d["device_id"]) IN
               IF family.uri = "none"
               THEN /\ raise(calls, "DeviceError", <<"Unknown device_id">>)
                    /\ UNCHANGED data_type
               ELSE /\ data_type' = ("type" :> family.type)
                    /\ data' = d
                    /\ _request_get(calls, family.uri)

\* line 143, 146, 149 or 152 answered: lines 156-157
config_config ==
  /\ op = "device_config" /\ pending \in {"charger_config.get", "M2w_config.Get"}
  /\ \E d \in config_payloads :
       /\ receive_json(d)
       /\ finish(Settings(tagged(data_type, d)))
  /\ UNCHANGED data_type

(***************************************************************************)
(* The control commands, lines 159-255: one POST each.                     *)
(***************************************************************************)
LBMode == 0..3
Brightness == {0, 100}

command(name, json) ==
  /\ enter(name, <<>>)
  /\ data' = EmptyDict
  /\ _request_post(<<>>, json)

config_set(name, id, key, value) ==
  command(name, [src |-> "HASS", id |-> id, method |-> "app_config.set",
                 params |-> [config_key |-> key, config_value |-> value]])

send_charge_start ==
  /\ free
  /\ \E id \in CorrelationIds :
       command("send_charge_start",
               [src |-> "HASS", id |-> id, method |-> "charge.start",
                params |-> [tag |-> "HASS"]])

send_charge_stop ==
  /\ free
  /\ \E id \in CorrelationIds :
       command("send_charge_stop", [src |-> "HASS", id |-> id, method |-> "charge.stop"])

send_reset ==
  /\ free
  /\ \E id \in CorrelationIds :
       command("send_reset", [src |-> "HASS", id |-> id, method |-> "device.reset"])

set_auth ==
  /\ free
  /\ \E id \in CorrelationIds, value \in BOOLEAN :
       config_set("set_auth", id, "headless", value)

set_led_max_brightness ==
  /\ free
  /\ \E id \in CorrelationIds, value \in Brightness :
       config_set("set_led_max_brightness", id, "led_max_brightness", value)

set_dynamic_current ==
  /\ free
  /\ \E id \in CorrelationIds, value \in Amps :
       command("set_dynamic_current",
               [src |-> "HASS", id |-> id, method |-> "dynamic_current.set",
                params |-> [dynamic_current |-> value]])

set_user_current ==
  /\ free
  /\ \E id \in CorrelationIds, value \in Amps :
       config_set("set_user_current", id, "user_current", value)

set_load_balancing_mode ==
  /\ free
  /\ \E id \in CorrelationIds, value \in LBMode :
       config_set("set_load_balancing_mode", id, "load_balancing_mode", value)

set_charger_locked ==
  /\ free
  /\ \E id \in CorrelationIds, value \in BOOLEAN :
       config_set("set_charger_locked", id, "charger_locked", value)

set_relay_mode ==
  /\ free
  /\ \E id \in CorrelationIds, value_dynamic_current \in Amps, value \in {0, 1} :
       command("set_relay_mode",
               [src |-> "HASS", id |-> id, method |-> "dynamic_current.Set",
                params |-> [dynamic_current |-> value_dynamic_current,
                            relay_mode |-> value]])

Commands ==
  {"send_charge_start", "send_charge_stop", "send_reset", "set_auth",
   "set_led_max_brightness", "set_dynamic_current", "set_user_current",
   "set_load_balancing_mode", "set_charger_locked", "set_relay_mode"}

\* the POST answered: the acknowledgement is returned as it came
command_ack ==
  /\ op \in Commands /\ pending = "rpc"
  /\ \E d \in ack_payloads :
       /\ receive_json(d)
       /\ return(d)
  /\ UNCHANGED data_type

(***************************************************************************)
(* close and the exit of an "async with" scope, lines 257-274.  __aenter__ *)
(* (lines 262-267) returns the handle and touches nothing, so entering a   *)
(* scope is no step.                                                       *)
(***************************************************************************)
\* line 259 without the test of _close_session
closes_any == asyncClient # "None"

\* line 259
closes == asyncClient # "None" /\ close_session

\* lines 259-260: the client the handle holds is closed if the handle owns it
aclose ==
  closed_clients' = IF closes THEN closed_clients \cup {asyncClient}
                    ELSE closed_clients

\* lines 257-260
close ==
  /\ free
  /\ enter("close", <<>>)
  /\ aclose
  /\ pc' = "done"
  /\ outcome' = "ok"
  /\ result' = EmptyDict
  /\ error_args' = <<>>
  /\ pending' = "none"
  /\ calls' = <<>>
  /\ data' = EmptyDict
  /\ UNCHANGED <<asyncClient, close_session, clients>>

\* lines 269-274: the scope is left after its body ended, with a value or
\* with an exception; __aexit__ returns None, so an exception of the body
\* goes on to the caller
__aexit__ ==
  /\ free
  /\ enter("__aexit__", <<>>)
  /\ aclose
  /\ pc' = "done"
  /\ pending' = "none"
  /\ calls' = <<>>
  /\ data' = EmptyDict
  /\ UNCHANGED <<asyncClient, close_session, clients, outcome, result, error_args>>

(***************************************************************************)
(* _request, lines 332-359: the round trips that do not deliver JSON.      *)
(***************************************************************************)
\* the transport event ev ends the request in flight with an exception
fail(ev, resp, kind, args) ==
  /\ lastNet' = ev
  /\ response' = resp
  /\ raise(calls, kind, args)
  /\ UNCHANGED <<op, device_type, data_type, received>>

\* lines 340-343 as a retry: the request is sent again
TimeoutFires_retry ==
  /\ pc = "await"
  /\ lastNet' = "timeout"
  /\ response' = NoResponse
  /\ LET last == calls[Len(calls)] IN _request(calls, last.method, last.url, last.json)
  /\ UNCHANGED <<op, device_type, data_type, received, data>>

\* lines 340-343 left out: asyncio.TimeoutError reaches the caller
TimeoutFires_uncaught ==
  /\ pc = "await"
  /\ fail("timeout", NoResponse, "TimeoutError", <<>>)

\* lines 333, 340-343: nothing arrived within request_timeout
TimeoutFires ==
  /\ pc = "await"
  /\ fail("timeout", NoResponse, "DeviceConnectionError",
       <<"Timeout occurred while connecting to Lektrico device">>)

\* lines 344-351: httpx.ConnectError, httpx.ConnectTimeout, socket.gaierror
ConnectFails ==
  /\ pc = "await"
  /\ fail("connect", NoResponse, "DeviceConnectionError",
       <<"Error occurred while communicating with Lektrico device">>)

\* an httpx exception the except clauses do not name (httpx.ReadError, ...)
ReadFails ==
  /\ pc = "await"
  /\ fail("read", NoResponse, "httpx.ReadError", <<>>)

\* line 339: raise_for_status() raises httpx.HTTPStatusError, which is
\* none of the classes of lines 340-348
StatusFails ==
  /\ pc = "await"
  /\ \E st \in FailureStatuses :
       fail("status", [NoResponse EXCEPT !.status = st],
            "httpx.HTTPStatusError", <<"Client error">>)

\* lines 353-359: response.text of an httpx.Response is a str, and line 355
\* calls it
NonJson ==
  /\ pc = "await"
  /\ \E ct \in OtherContentTypes, t \in Texts :
       /\ ~is_json(ct)
       /\ fail("nonjson",
            [NoResponse EXCEPT !.status = 200, !.content_type = ct, !.text = t],
            "TypeError", <<"'str' object is not callable">>)

Next ==
  \/ \E dt \in DeviceTypeArgs : device_info(dt)
  \/ info_charger_info
  \/ info_app_config
  \/ info_active_errors
  \/ info_dynamic_current
  \/ info_meter_info
  \/ info_App_config
  \/ info_Sw_version
  \/ device_config
  \/ config_Device_id
  \/ config_config
  \/ send_charge_start
  \/ send_charge_stop
  \/ send_reset
  \/ set_auth
  \/ set_led_max_brightness
  \/ set_dynamic_current
  \/ set_user_current
  \/ set_load_balancing_mode
  \/ set_charger_locked
  \/ set_relay_mode
  \/ command_ack
  \/ close
  \/ __aexit__
  \/ TimeoutFires
  \/ ConnectFails
  \/ ReadFails
  \/ StatusFails
  \/ NonJson

Spec == Init /\ [][Next]_vars

\* the timer of "async with timeout(self.request_timeout)" does fire
FairSpec == Spec /\ WF_vars(TimeoutFires)

(***************************************************************************)
(* The decoders on their own: the function named by op is called on the    *)
(* arguments in data and its value is left in result.                      *)
(***************************************************************************)
\* the "result" test made before the "error" test
_interpret_answer_result_first(answer) ==
  IF has(answer, "result") THEN answer["result"] = TRUE
  ELSE FALSE

\* _interpret_answer of the tests
_interpret_answer(answer) ==
  IF has(answer, "error") THEN FALSE
  ELSE IF has(answer, "result") THEN answer["result"] = TRUE
  ELSE FALSE

StateCodes ==
  {"A", "B", "B_AUTH", "B_PAUSE", "C", "D", "E", "F", "OTA",
   "Z", "b_auth", "B_AUTH ", ""}

\* the merged answers as they reach line 86
StageInputs ==
  { Opt("extended_charger_state", st) @@ Opt("current_limit_reason", clr)
    @@ Opt("state_e_activated", sea) @@ Opt("state_machine_e_activated", sme)
    @@ Opt("relay_mode", rm) @@ ("dynamic_current" :> 16) :
      st \in OptOf(RawStates), clr \in OptOf({-1, 0, 7, 8}),
      sea \in OptOf({FALSE}), sme \in OptOf({TRUE}), rm \in OptOf({1}) }

DecodeInit ==
  /\ asyncClient = "None"
  /\ close_session = FALSE
  /\ clients = <<>>
  /\ closed_clients = {}
  /\ pc = "idle"
  /\ device_type = <<>>
  /\ pending = "none"
  /\ calls = <<>>
  /\ received = <<>>
  /\ data_type = EmptyDict
  /\ lastNet = "none"
  /\ response = NoResponse
  /\ outcome = "none"
  /\ result = EmptyDict
  /\ error_args = <<>>
  /\ \/ op = "legacy_stage" /\ data \in StageInputs
     \/ op = "_put_readable_format" /\ data \in {("_state" :> s) : s \in StateCodes}
     \/ op = "_interpret_answer" /\ data \in {("answer" :> a) : a \in ack_payloads}

\* the function returned value
returned(value) ==
  /\ pc' = "done"
  /\ outcome' = "ok"
  /\ result' = value
  /\ UNCHANGED <<asyncClient, close_session, clients, closed_clients, op,
                 device_type, pending, calls, received, data_type, lastNet,
                 response, error_args>>

\* lines 86-100 run on a record, and again on the record they gave
run_legacy_stage ==
  /\ op = "legacy_stage" /\ outcome \in {"none", "ok"}
  /\ LET arg == IF pc = "idle" THEN data ELSE result
         r == legacy_stage(arg)
     IN /\ data' = arg
        /\ pc' = "done"
        /\ outcome' = IF r.err = "none" THEN "ok" ELSE r.err
        /\ result' = r.val
  /\ UNCHANGED <<asyncClient, close_session, clients, closed_clients, op,
                 device_type, pending, calls, received, data_type, lastNet,
                 response, error_args>>

call_put_readable_format ==
  /\ op = "_put_readable_format" /\ pc = "idle"
  /\ returned("return" :> _put_readable_format(data["_state"]))
  /\ UNCHANGED data

call_interpret_answer ==
  /\ op = "_interpret_answer" /\ pc = "idle"
  /\ returned("return" :> _interpret_answer(data["answer"]))
  /\ UNCHANGED data

DecodeNext ==
  \/ run_legacy_stage
  \/ call_put_readable_format
  \/ call_interpret_answer

DecodeSpec == DecodeInit /\ [][DecodeNext]_vars

(***************************************************************************)
(* Operations run as concurrent asyncio tasks on one handle constructed    *)
(* without a client.  A task runs alone until its next await, and the only *)
(* awaits of an operation are the round trips of line 334 and the aclose   *)
(* of line 260: a step of a task is the code from one of them to the next. *)
(* pc, op, pending and outcome have an entry for each task, and calls      *)
(* records the task and the client of every request.                       *)
(***************************************************************************)
MaxTasks == 3
Tasks == 1..MaxTasks

\* the round trips of an operation that meets no failure
round_trips(name) ==
  CASE name = "set_auth" -> 1
    [] name = "device_config" -> 2

TaskOperations == {"set_auth", "device_config"}

\* the requests task t has issued
issued(t) == Cardinality({i \in 1..Len(calls) : calls[i].task = t})

ConcurrentInit ==
  /\ asyncClient = "None"
  /\ close_session = FALSE
  /\ clients = <<>>
  /\ closed_clients = {}
  /\ pc = [t \in Tasks |-> "idle"]
  /\ op = [t \in Tasks |-> "none"]
  /\ pending = [t \in Tasks |-> "none"]
  /\ outcome = [t \in Tasks |-> "none"]
  /\ calls = <<>>
  /\ received = <<>>
  /\ device_type = <<>>
  /\ data = EmptyDict
  /\ data_type = EmptyDict
  /\ lastNet = "none"
  /\ response = NoResponse
  /\ result = EmptyDict
  /\ error_args = <<>>

\* _request run by task t, lines 328-338
task_request(t, name) ==
  LET client == IF needs_client THEN new_client ELSE asyncClient IN
    /\ asyncClient' = client
    /\ close_session' = IF needs_client THEN TRUE ELSE close_session
    /\ clients' = IF needs_client THEN Append(clients, new_client) ELSE clients
    /\ IF client \in closed_clients
       THEN /\ pc' = [pc EXCEPT ![t] = "done"]
            /\ outcome' = [outcome EXCEPT ![t] = "RuntimeError"]
            /\ pending' = [pending EXCEPT ![t] = "none"]
            /\ UNCHANGED calls
       ELSE /\ pc' = [pc EXCEPT ![t] = "await"]
            /\ outcome' = [outcome EXCEPT ![t] = "none"]
            /\ pending' = [pending EXCEPT ![t] = name]
            /\ calls' = Append(calls, [task |-> t, op |-> name, client |-> client])
    /\ UNCHANGED <<closed_clients, received, device_type, data, data_type,
                   lastNet, response, result, error_args>>

\* a task starts an operation and runs to its first round trip
task_start ==
  \E t \in Tasks, name \in TaskOperations :
    /\ pc[t] = "idle"
    /\ op' = [op EXCEPT ![t] = name]
    /\ task_request(t, name)

\* a round trip of a task is answered: the task goes on to its next round
\* trip, or returns
task_answered ==
  \E t \in Tasks :
    /\ pc[t] = "await"
    /\ IF issued(t) < round_trips(op[t])
       THEN task_request(t, op[t])
       ELSE /\ pc' = [pc EXCEPT ![t] = "done"]
            /\ outcome' = [outcome EXCEPT ![t] = "ok"]
            /\ pending' = [pending EXCEPT ![t] = "none"]
            /\ UNCHANGED <<asyncClient, close_session, clients, closed_clients,
                           calls, received, device_type, data, data_type,
                           lastNet, response, result, error_args>>
    /\ UNCHANGED op

\* a round trip of a task ends with an exception, lines 340-351
task_failed ==
  \E t \in Tasks :
    /\ pc[t] = "await"
    /\ pc' = [pc EXCEPT ![t] = "done"]
    /\ outcome' = [outcome EXCEPT ![t] = "DeviceConnectionError"]
    /\ pending' = [pending EXCEPT ![t] = "none"]
    /\ UNCHANGED <<asyncClient, close_session, clients, closed_clients, op,
                   calls, received, device_type, data, data_type, lastNet,
                   response, result, error_args>>

\* close is called while tasks run, lines 257-260; a call that finds the
\* client closed already changes nothing
task_close ==
  /\ closed_clients # {asyncClient}
  /\ aclose
  /\ UNCHANGED <<asyncClient, close_session, clients, pc, op, pending, outcome,
                 calls, received, device_type, data, data_type, lastNet,
                 response, result, error_args>>

ConcurrentNext ==
  \/ task_start
  \/ task_answered
  \/ task_failed
  \/ task_close

ConcurrentSpec == ConcurrentInit /\ [][ConcurrentNext]_vars

(***************************************************************************)
(* Properties.                                                             *)
(***************************************************************************)
\* the RPC method a request went to ("rpc" for a POST)
uri(c) == c.url[Len(c.url)]
times_called(u) == Cardinality({i \in 1..Len(calls) : uri(calls[i]) = u})

ChargerFamilies == {TYPE_1P7K, TYPE_3P22K}
KnownFamilies == {TYPE_1P7K, TYPE_3P22K, TYPE_EM, TYPE_3EM}
InChargerInfo == op = "device_info" /\ device_type \in ChargerFamilies

\* the merge of the answers of charger_info.get and app_config.get
merged_status == update(received[1], received[2])

Failures == {"timeout", "connect", "read", "status", "nonjson"}

\* C2: a round trip that fails ends the operation there: the failing request
\* is the last one issued, no endpoint is called twice, and the caller gets
\* an exception and no record.
C2_AbortOnFailure ==
  /\ \A i, j \in 1..Len(calls) : i # j => calls[i].url # calls[j].url
  /\ lastNet \in Failures =>
       /\ pc = "done"
       /\ pending = "none"
       /\ outcome \notin {"none", "ok"}
       /\ DOMAIN result = {}
       /\ Len(received) = Len(calls) - 1

\* device_info failed at its third round trip, two answers already merged
C2_Witness ==
  /\ op = "device_info" /\ lastNet = "connect"
  /\ Len(calls) = 3 /\ Len(received) = 2
  /\ outcome = "DeviceConnectionError"

\* C3: a response with a failure status makes the operation fail with
\* DeviceConnectionError.
C3_StatusIsConnectionError ==
  lastNet = "status" => outcome = "DeviceConnectionError"

\* C4: every operation ends with a record or acknowledgement, or with one of
\* the connection, protocol and validation errors, and with nothing else;
\* stated for the operations whose last round trip was answered with JSON,
\* where a missing field or an out-of-range code decides the outcome.
C4_OnlyTypedOutcomes ==
  (pc = "done" /\ lastNet = "json") =>
    outcome \in {"ok", "DeviceConnectionError", "DeviceError", "ValidationError"}

\* C5: device_info with a device_type that is none of the four families
\* fails with DeviceError and issues no request.
C5_UnknownFamilyNoRoundTrip ==
  (op = "device_info" /\ device_type \notin KnownFamilies) =>
    /\ pc = "done"
    /\ outcome = "DeviceError"
    /\ calls = <<>>
    /\ received = <<>>
    /\ lastNet = "none"

\* the unknown family was passed to a handle that already owns a client
C5_Witness ==
  /\ op = "device_info" /\ device_type \notin KnownFamilies
  /\ outcome = "DeviceError"
  /\ asyncClient = "created"

has_separator(id) == \E i \in 1..Len(id) : id[i] = "_"
before_separator(id) ==
  SubSeq(id, 1, (CHOOSE i \in 1..Len(id) : id[i] = "_" /\ \A j \in 1..(i - 1) : id[j] # "_") - 1)
FamilyTags == {TYPE_1P7K, TYPE_3P22K, <<"m", "2", "w">>}
TablePrefixes == {TYPE_1P7K, TYPE_3P22K, PREFIX_M2W_81, PREFIX_M2W_83}

\* device_config has the identifier of the device
Identified ==
  op = "device_config" /\ Len(received) >= 1 /\ has(received[1], "device_id")

detection_failed ==
  pc = "done" /\ outcome = "DeviceError" /\ Len(calls) = 1

C10_NonJsonIsProtocolError ==
  lastNet = "nonjson" =>
    /\ outcome = "DeviceError"
    /\ Len(error_args) = 2
    /\ error_args[2] =
         ("Content-Type" :> response.content_type) @@ ("response" :> response.text)

\* every answer of the operation merged, later answers over earlier ones
RECURSIVE merge_answers(_)
merge_answers(answers) ==
  IF answers = <<>> THEN EmptyDict
  ELSE update(merge_answers(SubSeq(answers, 1, Len(answers) - 1)),
              answers[Len(answers)])

\* device_info for a charger got its last answer and has ended
ChargerInfoDecoded ==
  /\ InChargerInfo /\ pc = "done" /\ lastNet = "json"
  /\ Len(calls) >= 3 /\ uri(calls[Len(calls)]) = "dynamic_current.get"

LimitReasonTable ==
  <<"no_limit", "installation_current", "user_limit", "dynamic_limit",
    "schedule", "em_offline", "em", "ocpp">>

LegacyFlagOnly ==
  /\ \A i \in 1..Len(received) : ~has(received[i], "state_e_activated")
  /\ \E i \in 1..Len(received) : has(received[i], "state_machine_e_activated")

StagePassed == op = "legacy_stage" /\ pc = "done" /\ outcome = "ok"

BackfilledFields == {"state_e_activated", "relay_mode"}

\* C13 as stated: lines 86-100 (state decode, current_limit_reason default or
\* decode, state_e_activated copy, relay_mode default) applied to a record
\* that went through them give the same record, and a record that holds the
\* canonical fields keeps them.
C13_StageIdempotent ==
  StagePassed =>
    /\ legacy_stage(result).err = "none"
    /\ legacy_stage(result).val = result
    /\ \A k \in BackfilledFields \cap DOMAIN data : result[k] = data[k]

\* C13 amended: the state decode, the state_e_activated copy and the
\* relay_mode default applied to a record that went through lines 86-100 give
\* the same record, and a record that holds state_e_activated or relay_mode
\* keeps them; the current_limit_reason step applied to such a record raises
\* ValueError, the field holding a name where it held an index.
C13_BackfillIdempotent ==
  StagePassed =>
    /\ decode_state(result).err = "none" /\ decode_state(result).val = result
    /\ backfill_state_e(result).err = "none" /\ backfill_state_e(result).val = result
    /\ backfill_relay_mode(result).err = "none" /\ backfill_relay_mode(result).val = result
    /\ \A k \in BackfilledFields \cap DOMAIN data : result[k] = data[k]
    /\ decode_limit_reason(result).err = "ValueError"

\* both fields were filled in by the stage
C13_Witness ==
  /\ StagePassed
  /\ BackfilledFields \cap DOMAIN data = {}
  /\ result["state_e_activated"] = TRUE /\ result["relay_mode"] = -1

\* the method string of each control operation
MethodOf(name) ==
  CASE name = "send_charge_start" -> "charge.start"
    [] name = "send_charge_stop" -> "charge.stop"
    [] name = "send_reset" -> "device.reset"
    [] name = "set_dynamic_current" -> "dynamic_current.set"
    [] name = "set_relay_mode" -> "dynamic_current.Set"
    [] name \in {"set_auth", "set_led_max_brightness", "set_user_current",
                 "set_load_balancing_mode", "set_charger_locked"} -> "app_config.set"

ControlOperations ==
  {"send_charge_start", "send_charge_stop", "send_reset", "set_auth",
   "set_led_max_brightness", "set_dynamic_current", "set_user_current",
   "set_load_balancing_mode", "set_charger_locked", "set_relay_mode"}

\* C14: a control operation issues one POST to /rpc and no GET, with src the
\* caller id HASS, an id in 10000000..99999999 and the method string of the
\* operation, and returns the acknowledgement of the device as it came,
\* whatever its result or error is.
C14_CommandIsOnePost ==
  op \in ControlOperations =>
    /\ Len(calls) <= 1
    /\ (pc = "await" \/ lastNet # "none") => Len(calls) = 1
    /\ \A i \in 1..Len(calls) :
         /\ calls[i].method = "POST"
         /\ calls[i].url = <<"rpc">>
         /\ calls[i].json["src"] = "HASS"
         /\ calls[i].json["id"] \in 10000000..99999999
         /\ calls[i].json["method"] = MethodOf(op)
    /\ lastNet = "json" => (outcome = "ok" /\ Len(received) = 1 /\ result = received[1])

\* an acknowledgement that reports an error was returned as it came
C14_Witness ==
  /\ op = "set_relay_mode" /\ outcome = "ok"
  /\ calls[1].json["id"] = 99999999
  /\ has(result, "error") /\ ~has(result, "result")

Interpreted == op = "_interpret_answer" /\ pc = "done"

\* C15: _interpret_answer gives true exactly for an answer that has no error
\* key and has a result key that is true; it gives false for every answer
\* with an error key (also one that has result true as well), for result
\* false, and for an answer with neither key.
C15_InterpretAnswerTable ==
  Interpreted =>
    LET answer == data["answer"] IN
      /\ outcome = "ok"
      /\ has(answer, "error") => result["return"] = FALSE
      /\ (~has(answer, "error") /\ has(answer, "result")) =>
           result["return"] = answer["result"]
      /\ (~has(answer, "error") /\ ~has(answer, "result")) => result["return"] = FALSE

\* an answer with an error and with result true was interpreted
C15_Witness ==
  /\ Interpreted
  /\ has(data["answer"], "error") /\ has(data["answer"], "result")
  /\ data["answer"]["result"] = TRUE
  /\ result["return"] = FALSE

\* the readable names of the raw codes
ReadableNames ==
  [A |-> "available", B |-> "connected", B_AUTH |-> "need_auth",
   B_PAUSE |-> "paused", C |-> "charging", D |-> "charging", E |-> "error",
   F |-> "error", OTA |-> "updating_firmware"]

\* C17: _put_readable_format gives available for A, connected for B,
\* need_auth for B_AUTH, paused for B_PAUSE, charging for C and D, error for E
\* and F, updating_firmware for OTA, and every other code as it came, without
\* an error.
C17_ReadableFormatTotal ==
  (op = "_put_readable_format" /\ pc = "done") =>
    /\ outcome = "ok"
    /\ result["return"] =
         IF data["_state"] \in DOMAIN ReadableNames
         THEN ReadableNames[data["_state"]] ELSE data["_state"]

\* a code that differs from a known one by a trailing blank came back as it was
C17_Witness ==
  /\ op = "_put_readable_format" /\ pc = "done" /\ outcome = "ok"
  /\ data["_state"] = "B_AUTH " /\ result["return"] = "B_AUTH "

\* C16: over any sequence of operations, close calls and scope exits, a
\* client the caller supplied at construction is never closed by the handle,
\* and a client the handle created itself is closed once the scope is left,
\* also when the operation in the scope ended with an exception.
C16_SessionOwnership ==
  /\ asyncClient = "supplied" => (~is_closed /\ ~close_session)
  /\ (op = "__aexit__" /\ asyncClient = "created") => is_closed

\* the scope was left after its operation failed, and the client is closed
C16_Witness ==
  /\ op = "__aexit__" /\ asyncClient = "created" /\ is_closed
  /\ outcome = "DeviceConnectionError"

\* C18: under every interleaving of operations run concurrently on a handle
\* constructed without a client, the handle creates at most one client: no
\* created client is replaced by another and left unclosed, every round trip
\* uses the client the handle holds, and the client close releases is that
\* one.
C18_SingleClient ==
  /\ Len(clients) <= 1
  /\ \A i \in 1..Len(clients) : clients[i] = asyncClient
  /\ \A i \in 1..Len(calls) : calls[i].client = asyncClient
  /\ closed_clients \subseteq {asyncClient}
  /\ closed_clients # {} => \A i \in 1..Len(clients) : clients[i] \in closed_clients

\* three tasks have a request in flight at once, one of them its second,
\* and close released the client meanwhile
C18_Witness ==
  /\ \A t \in Tasks : pc[t] = "await"
  /\ Len(calls) >= 4
  /\ Len(clients) = 1
  /\ closed_clients = {"created"}

====
